---- MODULE Spec2Model ----
(***************************************************************************)
(* Model of the recommend command of k8s-capacity (cmd/recommend.go).      *)
(*                                                                         *)
(* Numbers.  The program computes with float64.  The model uses fixed      *)
(* point integers:                                                         *)
(*   - a CPU value c (cores) is the integer c * 10000 ("ticks");           *)
(*   - a memory value m (the argument of formatMemory, which the code      *)
(*     reads as MiB) is the integer m * 1024 ("units");                    *)
(*   - a percentile p is the integer p * 1000.                             *)
(* A string produced by fmt.Sprintf("%.0f<unit>", x) is the record         *)
(* [neg, digits, unit]: the sign that is printed, the decimal digits and   *)
(* the suffix.                                                             *)
(***************************************************************************)
EXTENDS Integers, Sequences, FiniteSets, TLC

----------------------------------------------------------------------------
(* Bounds of the model *)

\* CPU inputs of the formatter calls cover every tick in 0..MaxCpuTicks
MaxCpuTicks == 12
\* memory inputs of the formatter calls cover every half MiB in 0..MaxMemHalves
MaxMemHalves == 6
\* workloads a lister returns in one list
MaxDeployments == 2
MaxStatefulSets == 1
\* failing responses the metrics backend gives in one run
MaxFailures == 1

----------------------------------------------------------------------------
(* fmt.Sprintf("%.0f", x): the nearest integer, ties to the even one *)

Abs(n) == IF n < 0 THEN -n ELSE n

\* nearest integer to n/d for n >= 0, d > 0; an exact tie goes to the even
\* neighbour (strconv's correctly rounded formatting)
RoundHalfEven(n, d) ==
    LET q == n \div d
        r == n % d
    IN  IF 2 * r < d THEN q
        ELSE IF 2 * r > d THEN q + 1
        ELSE q + (q % 2)

\* nearest integer, ties away from zero (math.Round): not what %.0f does
RoundHalfAway(n, d) ==
    LET q == n \div d
        r == n % d
    IN  IF 2 * r < d THEN q ELSE q + 1

\* the text of Sprintf("%.0f" + unit, n/d)
Sprintf0(n, d, unit) ==
    [neg |-> n < 0, digits |-> RoundHalfEven(Abs(n), d), unit |-> unit]

\* the text of Sprintf("%.2f", p/1000), as the number of hundredths printed
Sprintf2(p) == RoundHalfEven(p, 10)

----------------------------------------------------------------------------
(* Quantity formatter *)

formatCPU_WideClamp(cpu) ==
    IF cpu < 100 THEN [neg |-> FALSE, digits |-> 1, unit |-> "m"]
    ELSE IF cpu < 1000 THEN Sprintf0(cpu, 10, "m")
    ELSE IF cpu < 10000 THEN Sprintf0(cpu, 10, "m")
    ELSE Sprintf0(cpu, 10000, "")

\* formatCPU(cpu float64) string; cpu in ticks of 1/10000 core
formatCPU(cpu) ==
    IF cpu < 10 THEN [neg |-> FALSE, digits |-> 1, unit |-> "m"]
    ELSE IF cpu < 1000 THEN Sprintf0(cpu, 10, "m")
    ELSE IF cpu < 10000 THEN Sprintf0(cpu, 10, "m")
    ELSE Sprintf0(cpu, 10000, "")

formatMemory_EarlyGi(memory) ==
    IF memory >= 512 * 1024 THEN Sprintf0(memory, 1024 * 1024, "Gi")
    ELSE Sprintf0(memory, 1024, "Mi")

\* formatMemory(memory float64) string; memory in units of 1/1024 MiB
formatMemory(memory) ==
    IF memory >= 1024 * 1024 THEN Sprintf0(memory, 1024 * 1024, "Gi")
    ELSE Sprintf0(memory, 1024, "Mi")

convertMemoryToMiB_GiAsMi(memory) ==
    LET value == (IF memory.neg THEN -memory.digits ELSE memory.digits) * 1024
    IN  value

\* convertMemoryToMiB(memory string) float64; Sscanf("%f%s") splits the text
\* into the signed number and the rest; the result is in units of 1/1024 MiB
convertMemoryToMiB(memory) ==
    LET value == (IF memory.neg THEN -memory.digits ELSE memory.digits) * 1024
    IN  IF memory.unit = "Gi" THEN value * 1024
        ELSE IF memory.unit = "Mi" THEN value
        ELSE value

RECURSIVE maxFrom(_, _)
\* the loop of max: maxValue after the remaining values were visited
maxFrom(maxValue, values) ==
    IF values = <<>> THEN maxValue
    ELSE maxFrom(IF Head(values) > maxValue THEN Head(values) ELSE maxValue,
                 Tail(values))

\* max(values ...float64) float64; maxValue starts as the zero value
max(values) == maxFrom(0, values)

\* the memory lines recommendLimitRangesFunc prints for the suggested values
LimitRangeMemory(suggestedMin, suggestedMax, suggestedDefault, suggestedDefaultRequest) ==
    LET minMemoryMiB == convertMemoryToMiB(suggestedMin)
        maxMemoryMiB == convertMemoryToMiB(suggestedMax)
        defaultMemoryMiB == convertMemoryToMiB(suggestedDefault)
        defaultRequestMemoryMiB == convertMemoryToMiB(suggestedDefaultRequest)
        maxMemory == max(<<minMemoryMiB, maxMemoryMiB, defaultMemoryMiB,
                           defaultRequestMemoryMiB>>)
    IN  [min |-> suggestedMin,
         max |-> formatMemory(maxMemory),
         default |-> suggestedDefault,
         defaultRequest |-> suggestedDefaultRequest]

Qty(digits, unit) == [neg |-> FALSE, digits |-> digits, unit |-> unit]

\* the values recommendLimitRangesFunc suggests
suggestedMinMemory == Qty(50, "Mi")
suggestedMaxMemory == Qty(2, "Gi")
suggestedDefaultMemory == Qty(500, "Mi")
suggestedDefaultRequestMemory == Qty(100, "Mi")

----------------------------------------------------------------------------
(* What a quantity string denotes (Kubernetes resource.Quantity) *)

\* CPU amount in millicores
CPUAmount(q) ==
    (IF q.neg THEN -1 ELSE 1) * (IF q.unit = "m" THEN q.digits ELSE q.digits * 1000)

\* memory amount in MiB
MemoryAmount(q) ==
    (IF q.neg THEN -1 ELSE 1) * (IF q.unit = "Gi" THEN q.digits * 1024 ELSE q.digits)

----------------------------------------------------------------------------
(* The cluster and the metrics backend (external collaborators) *)

\* a workload object: its name and the pod template's ordered container names
WebWorkload == [name |-> "web", initContainers |-> <<"migrate">>,
                containers |-> <<"nginx", "app">>]
ApiWorkload == [name |-> "api", initContainers |-> <<>>,
                containers |-> <<"app">>]
\* a list of n workloads as a lister may return it: not sorted by name
Listing(first, second, n) ==
    [i \in 1 .. n |-> IF i % 2 = 1 THEN first ELSE second]

\* what the listers may return for the namespace
Clusters ==
    {[deployments |-> Listing(WebWorkload, ApiWorkload, d),
      statefulSets |-> Listing(ApiWorkload, WebWorkload, s)] :
        d \in 0 .. MaxDeployments, s \in 0 .. MaxStatefulSets}

\* the flags the user may pass: --timewindow, --cpu-percentile,
\* --memory-percentile (thousandths), --recommend-quotas,
\* --recommend-limit-ranges.  The first line is every flag at its default.
FlagSets ==
    {[timewindow |-> "1d", cpuPercentile |-> 990, memoryPercentile |-> 990,
      recommendQuotas |-> FALSE, recommendLimitRanges |-> FALSE],
     [timewindow |-> "5m", cpuPercentile |-> 999, memoryPercentile |-> 0,
      recommendQuotas |-> TRUE, recommendLimitRanges |-> TRUE],
     [timewindow |-> "1d", cpuPercentile |-> 950, memoryPercentile |-> 994,
      recommendQuotas |-> FALSE, recommendLimitRanges |-> TRUE]}

\* The number a successful query returns for a container.  CPU: cores, in
\* ticks.  Memory: the expression divides the bytes by 1024^3, so usage of
\* U MiB comes back as the number U/1024, which is U units of 1/1024.
BackendValue(container, metric, quantile) ==
    LET median == (quantile = 50)
    IN  IF container = "migrate" THEN
            IF metric = "cpu" THEN (IF median THEN 0 ELSE 25)
            ELSE (IF median THEN 0 ELSE 600)
        ELSE IF container = "nginx" THEN
            IF metric = "cpu" THEN (IF median THEN 500 ELSE 1200)
            ELSE (IF median THEN 600 ELSE 2048)
        ELSE
            IF metric = "cpu" THEN (IF median THEN 9996 ELSE 25000)
            ELSE (IF median THEN 2048 ELSE 4096)

\* the ways a single query can fail
FailureKinds ==
    {"transport_error", "non_200", "body_unreadable", "body_undecodable",
     "status_not_success", "empty_result", "value_too_short",
     "value_not_a_number", "value_unparsable"}

----------------------------------------------------------------------------
(* State *)

VARIABLES
    flags,                \* the parsed command line (cobra's flag set)
    cluster,              \* what the listers return
    timeWindow,           \* package global
    cpuPercentile,        \* package global, bound to --cpu-percentile
    memoryPercentile,     \* package global, bound to --memory-percentile
    recommendQuotas,      \* package global, bound to --recommend-quotas
    recommendLimitRanges, \* package global, bound to --recommend-limit-ranges
    pc,                   \* where Run is
    loop,                 \* "Deployment" or "StatefulSet": which range loop
    wi,                   \* index of the workload in its list
    ct,                   \* index in ContainerTypes: which call of printContainerRecommendations
    ci,                   \* index of the container in its list
    samples,              \* results of the container's queries so far
    lastResp,             \* the backend's answer to the latest query
    failures,             \* failing answers so far
    abort,                \* "none", or why Run panicked: "list", "query"
    trace,                \* what was printed and queried, in order
    fop, fin, fres        \* formatter calls: operation, inputs, results

runVars == <<flags, cluster, timeWindow, cpuPercentile, memoryPercentile,
             recommendQuotas, recommendLimitRanges, pc, loop, wi, ct, ci,
             samples, lastResp, failures, abort, trace>>
fmtVars == <<fop, fin, fres>>
vars == <<runVars, fmtVars>>

----------------------------------------------------------------------------
(* The recommend command *)

ContainerTypes_ContainersFirst == <<"Container", "InitContainer">>

\* the two calls of printContainerRecommendations for a workload, in order
ContainerTypes == <<"InitContainer", "Container">>

\* the two range loops of Run, in order
LoopOrder == <<"Deployment", "StatefulSet">>

\* the list the current loop ranges over
Items == IF loop = "Deployment" THEN cluster.deployments ELSE cluster.statefulSets

\* the containers argument of the current printContainerRecommendations call
ContainersOf(w, type) ==
    IF type = "InitContainer" THEN w.initContainers ELSE w.containers

\* the container the inner loop is at, with where it was found
Current ==
    [kind |-> loop, workload |-> wi, type |-> ContainerTypes[ct], index |-> ci,
     name |-> ContainersOf(Items[wi], ContainerTypes[ct])[ci]]

\* the four query strings queryPrometheus builds, in the order it issues
\* them: cpuAvgQuery, cpuMaxQuery, memoryAvgQuery, memoryMaxQuery.  quantile
\* is the number of hundredths in the text ("0.5" is 50, "%.2f" rounds).
queryPrometheus(window, cpuP, memP) ==
    <<[metric |-> "cpu", quantile |-> 50, window |-> window],
      [metric |-> "cpu", quantile |-> Sprintf2(cpuP), window |-> window],
      [metric |-> "memory", quantile |-> 50, window |-> window],
      [metric |-> "memory", quantile |-> Sprintf2(memP), window |-> window]>>

\* queryPrometheusMetric on the backend's answer: the float64 it returns, or
\* a panic (Value[1] of a value array with fewer than two elements)
queryPrometheusMetric(resp) ==
    IF resp.kind \in {"transport_error", "non_200", "body_unreadable",
                      "body_undecodable"}
    THEN [panic |-> FALSE, value |-> 0]
    ELSE IF resp.kind \in {"status_not_success", "empty_result"}
    THEN [panic |-> FALSE, value |-> 0]
    ELSE IF resp.kind = "value_too_short"
    THEN [panic |-> TRUE, value |-> 0]
    ELSE IF resp.kind \in {"value_unparsable", "value_not_a_number"}
    THEN [panic |-> FALSE, value |-> 0]
    ELSE [panic |-> FALSE, value |-> resp.value]

\* the recommendation printContainerRecommendations prints for the results
\* <<cpuAvg, cpuMax, memoryAvg, memoryMax>> of queryPrometheus
Recommend(s) ==
    [cpuRequest |-> formatCPU(s[1]),
     memoryRequest |-> formatMemory(s[3]),
     cpuLimit |-> formatCPU(s[2]),
     memoryLimit |-> formatMemory(s[4])]

NoResp == [kind |-> "none", value |-> 0]

RunInit ==
    /\ flags \in FlagSets
    /\ cluster \in Clusters
    /\ timeWindow = ""
    /\ cpuPercentile = flags.cpuPercentile
    /\ memoryPercentile = flags.memoryPercentile
    /\ recommendQuotas = flags.recommendQuotas
    /\ recommendLimitRanges = flags.recommendLimitRanges
    /\ pc = "list"
    /\ loop = LoopOrder[1]
    /\ wi = 1
    /\ ct = 1
    /\ ci = 1
    /\ samples = <<>>
    /\ lastResp = NoResp
    /\ failures = 0
    /\ abort = "none"
    /\ trace = <<>>

FmtIdle ==
    /\ fop = "none"
    /\ fin = <<>>
    /\ fres = <<>>

\* the command is not run: only the formatter is called
RunIdle ==
    /\ flags = CHOOSE f \in FlagSets : f.timewindow = "1d" /\ f.cpuPercentile = 990
    /\ cluster = [deployments |-> <<>>, statefulSets |-> <<>>]
    /\ timeWindow = ""
    /\ cpuPercentile = flags.cpuPercentile
    /\ memoryPercentile = flags.memoryPercentile
    /\ recommendQuotas = flags.recommendQuotas
    /\ recommendLimitRanges = flags.recommendLimitRanges
    /\ pc = "idle"
    /\ loop = LoopOrder[1]
    /\ wi = 1
    /\ ct = 1
    /\ ci = 1
    /\ samples = <<>>
    /\ lastResp = NoResp
    /\ failures = 0
    /\ abort = "none"
    /\ trace = <<>>

globals == <<timeWindow, cpuPercentile, memoryPercentile, recommendQuotas,
             recommendLimitRanges>>

\* Deployments(namespace).List / StatefulSets(namespace).List at the head of
\* a range loop; an error panics
List ==
    /\ pc = "list"
    /\ \E ok \in BOOLEAN :
         IF ok THEN /\ pc' = "workload"
                    /\ wi' = 1
                    /\ abort' = abort
               ELSE /\ pc' = "panic"
                    /\ abort' = "list"
                    /\ wi' = wi
    /\ UNCHANGED <<flags, cluster, globals, loop, ct, ci, samples, lastResp,
                   failures, trace, fmtVars>>

\* one turn of a range loop over workloads: print the workload's name and
\* enter the first printContainerRecommendations call, or leave the loop
NextWorkload ==
    /\ pc = "workload"
    /\ IF wi <= Len(Items)
       THEN /\ trace' = Append(trace, [ev |-> "workload", kind |-> loop,
                                       workload |-> wi, name |-> Items[wi].name])
            /\ pc' = "container"
            /\ ct' = 1
            /\ ci' = 1
            /\ loop' = loop
       ELSE /\ IF loop = LoopOrder[1]
               THEN /\ loop' = LoopOrder[2]
                    /\ pc' = "list"
               ELSE /\ loop' = loop
                    /\ pc' = "quotas"
            /\ UNCHANGED <<trace, ct, ci>>
    /\ UNCHANGED <<flags, cluster, globals, wi, samples, lastResp, failures,
                   abort, fmtVars>>

\* if timeWindow == "" { timeWindow = "30m" }
defaultTimeWindow(window) == IF window = "" THEN "30m" ELSE window

defaultMemoryPercentile_Always(memP, cpuP) == cpuP

\* if memoryPercentile == 0 { memoryPercentile = cpuPercentile }
defaultMemoryPercentile(memP, cpuP) == IF memP = 0 THEN cpuP ELSE memP

\* one turn of the loop of printContainerRecommendations: print the
\* container's header and enter queryPrometheus (the defaulting of the
\* globals), or return to Run
NextContainer ==
    /\ pc = "container"
    /\ IF ci <= Len(ContainersOf(Items[wi], ContainerTypes[ct]))
       THEN /\ trace' = Append(trace, [ev |-> "header", id |-> Current])
            /\ timeWindow' = defaultTimeWindow(timeWindow)
            /\ memoryPercentile' = defaultMemoryPercentile(memoryPercentile, cpuPercentile)
            /\ samples' = <<>>
            /\ pc' = "query"
            /\ UNCHANGED <<wi, ct, ci>>
       ELSE /\ IF ct < Len(ContainerTypes)
               THEN /\ ct' = ct + 1
                    /\ ci' = 1
                    /\ UNCHANGED <<wi, pc>>
               ELSE /\ wi' = wi + 1
                    /\ pc' = "workload"
                    /\ UNCHANGED <<ct, ci>>
            /\ UNCHANGED <<trace, timeWindow, memoryPercentile, samples>>
    /\ UNCHANGED <<flags, cluster, cpuPercentile, recommendQuotas,
                   recommendLimitRanges, loop, lastResp, failures, abort,
                   fmtVars>>

\* the next queryPrometheusMetric call of queryPrometheus
Query ==
    /\ pc = "query"
    /\ LET q == queryPrometheus(timeWindow, cpuPercentile, memoryPercentile)[Len(samples) + 1]
       IN  \E resp \in
                {[kind |-> "ok", value |-> BackendValue(Current.name, q.metric, q.quantile)]}
                \cup {[kind |-> k, value |-> 0] : k \in IF failures < MaxFailures THEN FailureKinds ELSE {}} :
             LET r == queryPrometheusMetric(resp)
             IN  /\ lastResp' = resp
                 /\ failures' = IF resp.kind = "ok" THEN failures ELSE failures + 1
                 /\ trace' = Append(trace,
                        [ev |-> "query", id |-> Current, metric |-> q.metric,
                         quantile |-> q.quantile, window |-> q.window,
                         failed |-> resp.kind # "ok", panicked |-> r.panic,
                         result |-> r.value])
                 /\ IF r.panic
                    THEN /\ pc' = "panic"
                         /\ abort' = "query"
                         /\ samples' = samples
                    ELSE /\ samples' = Append(samples, r.value)
                         /\ pc' = IF Len(samples) + 1 = 4 THEN "emit" ELSE "query"
                         /\ abort' = abort
    /\ UNCHANGED <<flags, cluster, globals, loop, wi, ct, ci, fmtVars>>

\* the rest of the loop body of printContainerRecommendations: format the
\* four results and print the record
Emit ==
    /\ pc = "emit"
    /\ trace' = Append(trace, [ev |-> "record", id |-> Current,
                               samples |-> samples, rec |-> Recommend(samples)])
    /\ ci' = ci + 1
    /\ pc' = "container"
    /\ UNCHANGED <<flags, cluster, globals, loop, wi, ct, samples, lastResp,
                   failures, abort, fmtVars>>

\* if recommendQuotas { recommendResourceQuotas(namespace) }
Quotas ==
    /\ pc = "quotas"
    /\ trace' = IF recommendQuotas
                THEN Append(trace, [ev |-> "quota", cpu |-> Qty(4, ""),
                                    memory |-> Qty(8, "Gi")])
                ELSE trace
    /\ pc' = "limitRanges"
    /\ UNCHANGED <<flags, cluster, globals, loop, wi, ct, ci, samples, lastResp,
                   failures, abort, fmtVars>>

\* if recommendLimitRanges { recommendLimitRangesFunc(namespace) }
LimitRanges ==
    /\ pc = "limitRanges"
    /\ trace' = IF recommendLimitRanges
                THEN Append(trace,
                        [ev |-> "limitRange",
                         memory |-> LimitRangeMemory(suggestedMinMemory, suggestedMaxMemory,
                                        suggestedDefaultMemory, suggestedDefaultRequestMemory)])
                ELSE trace
    /\ pc' = "done"
    /\ UNCHANGED <<flags, cluster, globals, loop, wi, ct, ci, samples, lastResp,
                   failures, abort, fmtVars>>

Init == RunInit /\ FmtIdle

Next == List \/ NextWorkload \/ NextContainer \/ Query \/ Emit \/ Quotas \/ LimitRanges

Spec == Init /\ [][Next]_vars

----------------------------------------------------------------------------
(* The quantity formatter and the limit-range policy, called on their own:  *)
(* each behaviour is one call                                              *)

\* CPU arguments, in ticks: every tick up to MaxCpuTicks, the ties and the
\* neighbours of the branch points 0.001, 0.1 and 1 core, and two negatives
CpuInputs ==
    (0 .. MaxCpuTicks)
    \cup {24, 25, 26, 35, 95, 500, 999, 1000, 1200, 1205, 9994, 9995, 9996,
          9999, 10000, 14999, 15000, 15001, 25000, 35000}
    \cup {-1, -10000}

\* memory arguments, in units of 1/1024 MiB: every half MiB up to
\* MaxMemHalves, the neighbours of the branch point 1024 MiB, the ties of
\* the Gi branch, and two negatives
MemInputs ==
    {h * 512 : h \in 0 .. MaxMemHalves}
    \cup {200 * 1024, 512 * 1024, 600 * 1024, 1023 * 1024, 1023 * 1024 + 512,
          1023 * 1024 + 600, 1024 * 1024, 1024 * 1024 + 1, 1500 * 1024,
          1536 * 1024, 2048 * 1024, 2560 * 1024, 3584 * 1024, 4000 * 1024}
    \cup {-1, -5 * 1024}

\* suggested memory bounds a limit-range policy may be configured with; the
\* program's own four values are among them
MemoryBounds ==
    {suggestedMinMemory, suggestedMaxMemory, suggestedDefaultMemory,
     suggestedDefaultRequestMemory, Qty(1500, "Mi"), Qty(1, "Gi")}

\* formatCPU is called on two values
CallFormatCPU ==
    /\ pc = "idle"
    /\ fop = "none"
    /\ \E a \in CpuInputs, b \in CpuInputs :
         /\ fop' = "formatCPU"
         /\ fin' = <<a, b>>
         /\ fres' = <<formatCPU(a), formatCPU(b)>>
    /\ UNCHANGED runVars

\* formatMemory is called on two values
CallFormatMemory ==
    /\ pc = "idle"
    /\ fop = "none"
    /\ \E a \in MemInputs, b \in MemInputs :
         /\ fop' = "formatMemory"
         /\ fin' = <<a, b>>
         /\ fres' = <<formatMemory(a), formatMemory(b)>>
    /\ UNCHANGED runVars

\* a value is formatted by formatMemory and read back by convertMemoryToMiB
CallRoundTrip ==
    /\ pc = "idle"
    /\ fop = "none"
    /\ \E m \in MemInputs :
         /\ fop' = "roundTrip"
         /\ fin' = <<m>>
         /\ fres' = <<formatMemory(m), convertMemoryToMiB(formatMemory(m))>>
    /\ UNCHANGED runVars

\* the memory part of recommendLimitRangesFunc for four suggested values
CallLimitRange ==
    /\ pc = "idle"
    /\ fop = "none"
    /\ \E mn \in MemoryBounds, mx \in MemoryBounds, df \in MemoryBounds,
          dr \in MemoryBounds :
         /\ fop' = "limitRange"
         /\ fin' = <<mn, mx, df, dr>>
         /\ fres' = <<LimitRangeMemory(mn, mx, df, dr)>>
    /\ UNCHANGED runVars

FmtInit == RunIdle /\ FmtIdle

FmtNext == CallFormatCPU \/ CallFormatMemory \/ CallRoundTrip \/ CallLimitRange

SpecFmt == FmtInit /\ [][FmtNext]_vars

----------------------------------------------------------------------------
(* Reading the trace *)

IsRecord(e) == e.ev = "record"

\* the records printed so far, in order
Records == SelectSeq(trace, IsRecord)

\* the containers of one workload in the order of its pod template: every
\* init-container, then every container
WorkloadOrder(kind, k, w) ==
    [i \in 1 .. Len(w.initContainers) |->
        [kind |-> kind, workload |-> k, type |-> "InitContainer", index |-> i,
         name |-> w.initContainers[i]]]
    \o
    [i \in 1 .. Len(w.containers) |->
        [kind |-> kind, workload |-> k, type |-> "Container", index |-> i,
         name |-> w.containers[i]]]

RECURSIVE ListOrder(_, _, _)
\* the containers of the first n workloads of a list, in listed order
ListOrder(kind, list, n) ==
    IF n = 0 THEN <<>>
    ELSE ListOrder(kind, list, n - 1) \o WorkloadOrder(kind, n, list[n])

\* the order the listers supply: the deployments, then the stateful sets
Expected ==
    ListOrder("Deployment", cluster.deployments, Len(cluster.deployments))
    \o ListOrder("StatefulSet", cluster.statefulSets, Len(cluster.statefulSets))

RECURSIVE InOrderFrom(_, _, _)
\* the events from the i-th on follow the order `expected`, k records having
\* been printed before them: each record is that of the container after the
\* k already reported, and each query is issued for that same container
InOrderFrom(i, k, expected) ==
    IF i > Len(trace) THEN TRUE
    ELSE IF trace[i].ev = "record"
    THEN /\ k < Len(expected)
         /\ trace[i].id = expected[k + 1]
         /\ InOrderFrom(i + 1, k + 1, expected)
    ELSE IF trace[i].ev = "query"
    THEN /\ k < Len(expected)
         /\ trace[i].id = expected[k + 1]
         /\ InOrderFrom(i + 1, k, expected)
    ELSE InOrderFrom(i + 1, k, expected)

Ended == pc \in {"done", "panic"}

----------------------------------------------------------------------------
(* Claims about the run *)

\* C1: every failure of a single query (transport error, non-200 status,
\* unreadable or undecodable body, status other than "success", empty result
\* set, a first result whose value cannot be extracted, a value array with
\* fewer than two elements) makes queryPrometheusMetric return 0, and none
\* aborts the run.
C1_FailureDegradesToZero ==
    /\ \A i \in 1 .. Len(trace) :
         (trace[i].ev = "query" /\ trace[i].failed)
            => (~trace[i].panicked /\ trace[i].result = 0)
    /\ abort # "query"

\* the backend failed for some query of container a
FailedFor(a) ==
    \E i \in 1 .. Len(trace) :
        trace[i].ev = "query" /\ trace[i].id = a /\ trace[i].failed

\* the place of a query's result among <<cpuAvg, cpuMax, memoryAvg, memoryMax>>
Slot(e) ==
    (IF e.metric = "cpu" THEN 0 ELSE 2) + (IF e.quantile = 50 THEN 1 ELSE 2)

\* a record of container b was printed whose recommendation is computed from
\* the samples the backend returned for b's own queries
HasOwnRecord(b) ==
    \E i \in 1 .. Len(trace) :
        /\ trace[i].ev = "record"
        /\ trace[i].id = b
        /\ trace[i].rec = Recommend(trace[i].samples)
        /\ \A j \in 1 .. Len(trace) :
             (trace[j].ev = "query" /\ trace[j].id = b /\ ~trace[j].failed)
                => trace[i].samples[Slot(trace[j])]
                     = BackendValue(b.name, trace[j].metric, trace[j].quantile)

\* C2 (degraded isolation): when a run over the listed containers is over
\* and the backend failed for the queries of a container A, every other
\* listed container B, before or after A, has a report record computed from
\* B's own samples.  (A lister error is fatal by design and is left out.)
C2_DegradedIsolation ==
    (Ended /\ abort # "list")
        => \A m \in 1 .. Len(Expected), n \in 1 .. Len(Expected) :
             (m # n /\ FailedFor(Expected[m])) => HasOwnRecord(Expected[n])

\* the memory percentile in force: --memory-percentile, or --cpu-percentile
\* when it is 0 (unset)
EffectiveMemoryPercentile ==
    IF flags.memoryPercentile = 0 THEN flags.cpuPercentile
    ELSE flags.memoryPercentile

\* the events i-5 .. i-1 before a record at i are the container's header and
\* its four queries, each once and in order, for the quantiles (in
\* thousandths) cpuQ and memQ
FourQueriesBefore(i, cpuQ, memQ) ==
    /\ i > 5
    /\ trace[i - 5].ev = "header"
    /\ trace[i - 5].id = trace[i].id
    /\ \A k \in 1 .. 4 :
         /\ trace[i - 5 + k].ev = "query"
         /\ trace[i - 5 + k].id = trace[i].id
    /\ <<trace[i - 4].metric, trace[i - 4].quantile * 10>> = <<"cpu", 500>>
    /\ <<trace[i - 3].metric, trace[i - 3].quantile * 10>> = <<"cpu", cpuQ>>
    /\ <<trace[i - 2].metric, trace[i - 2].quantile * 10>> = <<"memory", 500>>
    /\ <<trace[i - 1].metric, trace[i - 1].quantile * 10>> = <<"memory", memQ>>

\* C3: for each reported container exactly four queries are issued, one
\* after the other and each once, in the order CPU at 0.5, CPU at the
\* configured CPU percentile, memory at 0.5, memory at the configured memory
\* percentile; a failed query is not issued again.
C3_FourQueriesAtConfiguredPercentiles ==
    \A i \in 1 .. Len(trace) :
        trace[i].ev = "record"
            => FourQueriesBefore(i, flags.cpuPercentile, EffectiveMemoryPercentile)

\* The same with the quantiles as the query text carries them: "%.2f" keeps
\* two decimals of the percentile.
FourQueriesAtPrintedPercentiles ==
    \A i \in 1 .. Len(trace) :
        trace[i].ev = "record"
            => FourQueriesBefore(i, Sprintf2(flags.cpuPercentile) * 10,
                                 Sprintf2(EffectiveMemoryPercentile) * 10)

\* C4: records are emitted in the order the listers supply (deployments in
\* listed order, then stateful sets in listed order; in a workload the
\* init-containers in spec order, then the containers in spec order), and
\* when a query is issued the records of all earlier containers, and only
\* those, have been emitted.
C4_EmissionOrder ==
    LET expected == Expected
    IN  /\ InOrderFrom(1, 0, expected)
        /\ (pc \in {"quotas", "limitRanges", "done"})
              => Len(Records) = Len(expected)

\* a run that reported two deployments listed out of alphabetical order and
\* a stateful set, init-containers included
C4_Witness ==
    /\ pc = "done"
    /\ cluster.deployments = <<WebWorkload, ApiWorkload>>
    /\ cluster.statefulSets = <<ApiWorkload>>
    /\ Len(Records) = 5
    /\ failures > 0

\* C5: every quantity emitted in a recommendation (CPU request, CPU limit,
\* memory request, memory limit) is strictly positive, a zero sample being
\* raised to the smallest non-zero quantity for memory as for CPU.
C5_QuantitiesPositive ==
    \A i \in 1 .. Len(trace) :
        trace[i].ev = "record"
            => /\ CPUAmount(trace[i].rec.cpuRequest) > 0
               /\ CPUAmount(trace[i].rec.cpuLimit) > 0
               /\ MemoryAmount(trace[i].rec.memoryRequest) > 0
               /\ MemoryAmount(trace[i].rec.memoryLimit) > 0

----------------------------------------------------------------------------
(* Claims about the formatter *)

\* the result of a call that failed with InvalidInput
IsInvalidInput(r) == "error" \in DOMAIN r /\ r.error = "InvalidInput"

\* C6: formatCPU fails with InvalidInput for every cores < 0 and
\* formatMemory fails with InvalidInput for every mebibytes < 0; neither
\* returns a quantity string for a negative magnitude.
C6_NegativeRejected ==
    (fop \in {"formatCPU", "formatMemory"})
        => \A k \in 1 .. 2 : fin[k] < 0 => IsInvalidInput(fres[k])

\* the rule of the specification for cores >= 0, with the rounding Round(n, d)
\* of n/d: below 1 core round(cores*1000) with suffix m, "1m" when that is 0;
\* from 1 core on round(cores) with no suffix
RuleHalfAway(cores) ==
    IF cores < 10000
    THEN Qty(IF RoundHalfAway(cores, 10) = 0 THEN 1 ELSE RoundHalfAway(cores, 10), "m")
    ELSE Qty(RoundHalfAway(cores, 10000), "")

RuleHalfEven(cores) ==
    IF cores < 10000
    THEN Qty(IF RoundHalfEven(cores, 10) = 0 THEN 1 ELSE RoundHalfEven(cores, 10), "m")
    ELSE Qty(RoundHalfEven(cores, 10000), "")

\* C7 as stated: for every cores >= 0 formatCPU equals the rule with
\* round-half-away-from-zero, so that 0.0025 and 2.5 cores give "3m" and "3".
C7_RuleHalfAwayFromZero ==
    fop = "formatCPU"
        => \A k \in 1 .. 2 : fin[k] >= 0 => fres[k] = RuleHalfAway(fin[k])

\* C7 as amended: for every cores >= 0 formatCPU equals the rule with
\* round-half-to-even, so that 0.0025 and 2.5 cores give "2m" and "2"; every
\* 0 <= cores < 0.0005 gives "1m".
C7_RuleHalfToEven ==
    fop = "formatCPU"
        => \A k \in 1 .. 2 :
             fin[k] >= 0
                => /\ fres[k] = RuleHalfEven(fin[k])
                   /\ fin[k] < 5 => fres[k] = Qty(1, "m")

\* formatCPU was called on the ties 0.0025 cores and 2.5 cores
C7_Witness ==
    /\ fop = "formatCPU"
    /\ fin = <<25, 25000>>
    /\ fres = <<Qty(2, "m"), Qty(2, "")>>

\* C8 (memory round trip): for every m >= 0, convertMemoryToMiB(formatMemory(m))
\* differs from m by at most 1 MiB when m < 1024 and by at most 1024 MiB when
\* m >= 1024.
C8_RoundTrip ==
    (fop = "roundTrip" /\ fin[1] >= 0)
        => IF fin[1] < 1024 * 1024
           THEN Abs(fres[2] - fin[1]) <= 1024
           ELSE Abs(fres[2] - fin[1]) <= 1024 * 1024

\* a value above 1024 MiB came back changed by the rounding to whole Gi
C8_Witness ==
    /\ fop = "roundTrip"
    /\ fin[1] > 1024 * 1024
    /\ fres[1].unit = "Gi"
    /\ fres[2] # fin[1]

\* C9 (monotonicity): for 0 <= a <= b the amount formatCPU(a) denotes is not
\* greater than the amount formatCPU(b) denotes, and likewise for
\* formatMemory, across the unit switches at 1 core and 1024 MiB too.
C9_Monotone ==
    /\ (fop = "formatCPU" /\ 0 <= fin[1] /\ fin[1] <= fin[2])
          => CPUAmount(fres[1]) <= CPUAmount(fres[2])
    /\ (fop = "formatMemory" /\ 0 <= fin[1] /\ fin[1] <= fin[2])
          => MemoryAmount(fres[1]) <= MemoryAmount(fres[2])

\* formatMemory was called on both sides of the unit switch at 1024 MiB
C9_Witness ==
    /\ fop = "formatMemory"
    /\ 0 < fin[1]
    /\ fin[1] < 1024 * 1024
    /\ fin[2] >= 1024 * 1024
    /\ fres[1].unit = "Mi"
    /\ fres[2].unit = "Gi"

----------------------------------------------------------------------------
(* Claims about the configuration of the run *)

\* C11: every metric query ranges over the time window the user passed to
\* the command (--timewindow, or the flag's default "1d" when it is not
\* given): the window inside each query string equals the configured window.
C11_WindowIsConfigured ==
    \A i \in 1 .. Len(trace) :
        trace[i].ev = "query" => trace[i].window = flags.timewindow

\* a memory sample is a number of GiB; the same amount as a number of MiB
\* (both in units of 1/1024)
GiBToMiB(sample) == sample * 1024

\* the quantity q denotes the usage behind a memory sample within the
\* rounding granularity of its unit: 1 MiB below 1024 MiB, 1024 MiB from
\* there on
DenotesUsage(q, sample) ==
    LET usage == GiBToMiB(sample)
    IN  IF usage < 1024 * 1024
        THEN Abs(MemoryAmount(q) * 1024 - usage) <= 1024
        ELSE Abs(MemoryAmount(q) * 1024 - usage) <= 1024 * 1024

\* C12 (unit consistency of the memory pipeline): the memory sample is in
\* GiB and is converted to MiB before it is formatted, so for every
\* successfully sampled usage of U bytes the recommended memory request and
\* limit denote U within the rounding granularity of the unit (2 GiB gives
\* "2Gi", 600 MiB gives "600Mi").
C12_MemoryDenotesUsage ==
    \A i \in 1 .. Len(trace) :
        (trace[i].ev = "record" /\ i > 2)
            => /\ (trace[i - 2].ev = "query" /\ ~trace[i - 2].failed)
                    => DenotesUsage(trace[i].rec.memoryRequest, trace[i - 2].result)
               /\ (trace[i - 1].ev = "query" /\ ~trace[i - 1].failed)
                    => DenotesUsage(trace[i].rec.memoryLimit, trace[i - 1].result)

\* queryPrometheus has been entered at least once
Called == \E i \in 1 .. Len(trace) : trace[i].ev = "header"

\* C13 as stated: processing containers never changes configuration: the
\* CPU percentile, the memory percentile and the time window hold the values
\* they had before the first queryPrometheus call.
C13_ConfigNeverChanges ==
    /\ cpuPercentile = flags.cpuPercentile
    /\ memoryPercentile = flags.memoryPercentile
    /\ timeWindow = ""

\* C13 as amended: the CPU percentile never changes; the first
\* queryPrometheus call replaces an empty time window by "30m" and a memory
\* percentile of 0 by the CPU percentile, and from then on all three keep
\* their values, so the queries of every container carry the same window.
C13_ConfigChangesOnlyByDefaulting ==
    /\ cpuPercentile = flags.cpuPercentile
    /\ memoryPercentile = IF Called THEN EffectiveMemoryPercentile
                          ELSE flags.memoryPercentile
    /\ timeWindow = IF Called THEN "30m" ELSE ""
    /\ \A i \in 1 .. Len(trace) :
         trace[i].ev = "query" => trace[i].window = "30m"

\* two containers were reported in a run whose first queryPrometheus call
\* replaced the memory percentile 0 and the empty time window
C13_Witness ==
    /\ flags.memoryPercentile = 0
    /\ memoryPercentile = flags.cpuPercentile
    /\ memoryPercentile # 0
    /\ timeWindow = "30m"
    /\ Len(Records) >= 2

====
